---- MODULE Spec2Model ----
(***************************************************************************)
(* Context assembly and chat orchestration of the AI writing assistant:    *)
(* the GTK desktop editor (src/gtk4-ai-editor.py) and the Flask backend    *)
(* (src/web/app.py).                                                       *)
(*                                                                         *)
(* Text is a sequence of one-character strings, a file name is a text, a   *)
(* path is the sequence of its names, starting with the top folder's.      *)
(***************************************************************************)
EXTENDS Integers, Sequences, FiniteSets, TLC

\* ------------------------------------------------------------- bounds
\* Longest chat input (in characters) the message specifications enumerate.
MaxTextLen == 4
\* Sends (worker threads) the orchestration specifications start.
MaxSends == 2
\* Open editor tabs.
MaxTabs == 2
\* Longest context_files list a request to the web backend carries.
MaxWebFiles == 2
\* Script runs started.
MaxScripts == 1
\* Chat entries after which the user saves no more files.
MaxChat == 2

\* ------------------------------------------------------------- text
Chars == {"@", " ", "a", "b", "."}

\* The character class [\w\-\.] of the mention pattern, within Chars.
IsWordChar(c) == c \in {"a", "b", ".", "-", "_"}

IsSpace(c) == c = " "

RECURSIVE TextsUpTo(_)
TextsUpTo(n) ==
    IF n = 0 THEN {<<>>}
    ELSE LET shorter == TextsUpTo(n - 1)
         IN  shorter \cup {Append(t, c) : t \in {s \in shorter : Len(s) = n - 1}, c \in Chars}

\* Last index of the run of word characters that starts at i (i - 1 if none).
RECURSIVE RunEnd(_, _)
RunEnd(text, i) ==
    IF i <= Len(text) /\ IsWordChar(text[i]) THEN RunEnd(text, i + 1) ELSE i - 1

\* re.findall(r'@([\w\-\.]+)', text) scanning from index i: the captured
\* groups of the leftmost, non-overlapping, greedy matches, in text order.
RECURSIVE FindAllFrom(_, _)
FindAllFrom(text, i) ==
    IF i > Len(text) THEN <<>>
    ELSE IF text[i] = "@" /\ RunEnd(text, i + 1) >= i + 1
         THEN <<SubSeq(text, i + 1, RunEnd(text, i + 1))>>
                  \o FindAllFrom(text, RunEnd(text, i + 1) + 1)
         ELSE FindAllFrom(text, i + 1)

FindAll(text) == FindAllFrom(text, 1)

\* str.strip(): leading and trailing white space removed.
RECURSIVE LStrip(_)
LStrip(text) ==
    IF text # <<>> /\ IsSpace(Head(text)) THEN LStrip(Tail(text)) ELSE text

RECURSIVE RStrip(_)
RStrip(text) ==
    IF text # <<>> /\ IsSpace(text[Len(text)])
    THEN RStrip(SubSeq(text, 1, Len(text) - 1)) ELSE text

Strip(text) == RStrip(LStrip(text))

\* ------------------------------------------------------------- disk
NameA == <<"a">>
NameB == <<"b">>
NameDotA == <<".", "a">>
NameDotB == <<".", "b">>

NameTop == <<"t">>

TopDir == <<NameTop>>
DirB == <<NameTop, NameB>>
DirDotB == <<NameTop, NameDotB>>
FileA == <<NameTop, NameA>>
FileBA == <<NameTop, NameB, NameA>>
FileBB == <<NameTop, NameB, NameB>>
FileDotA == <<NameTop, NameDotA>>
FileDotBA == <<NameTop, NameDotB, NameA>>

\* The directories of the disk (they always exist) and the paths that may
\* hold a regular file.
Dirs == {TopDir, DirB, DirDotB}
Files == {FileA, FileBA, FileBB, FileDotA, FileDotBA}
Entries == (Dirs \ {TopDir}) \cup Files

\* What a file path holds: nothing, a regular file that cannot be read
\* (permission or encoding error), or a readable file with that content.
Contents == {"orig", "edit", "empty"}
FileStates == {"absent", "bad"} \cup Contents

\* Python's None where a path is expected: the empty path.
NoPath == <<>>

Basename(p) == p[Len(p)]

IsHiddenName(n) == n # <<>> /\ n[1] = "."

\* Some component of the path is a dot-name.
HasHiddenPart(p) == \E k \in 1..Len(p) : IsHiddenName(p[k])

\* p lies strictly below directory r.
IsBelow(r, p) == Len(p) > Len(r) /\ SubSeq(p, 1, Len(r)) = r

IsDir(dsk, p) == p \in Dirs
IsFile(dsk, p) == p \in Files /\ dsk[p] # "absent"
Exists(dsk, p) == IsDir(dsk, p) \/ IsFile(dsk, p)
CanRead(dsk, p) == p \in Files /\ dsk[p] \in Contents

\* Every enumeration of a finite set as a sequence (set iteration order).
RECURSIVE Perms(_)
Perms(S) ==
    IF S = {} THEN {<<>>}
    ELSE UNION {{<<x>> \o rest : rest \in Perms(S \ {x})} : x \in S}

\* Orders in which a recursive walk of the disk may meet the entries. Only
\* the relative order of entries of one name decides a lookup, and only the
\* name "a" is borne by more than one file, so the walks differ in the
\* order of those.
TraversalOrders ==
    {o \o <<DirB, FileBB, FileDotA, DirDotB>> : o \in Perms({FileA, FileBA, FileDotBA})}

RECURSIVE SeqToSet(_)
SeqToSet(s) == IF s = <<>> THEN {} ELSE {Head(s)} \cup SeqToSet(Tail(s))

\* Sequences over S of length at most n.
RECURSIVE SeqsUpTo(_, _)
SeqsUpTo(S, n) ==
    IF n = 0 THEN {<<>>}
    ELSE LET shorter == SeqsUpTo(S, n - 1)
         IN  shorter \cup {Append(t, x) : t \in {s \in shorter : Len(s) = n - 1}, x \in S}

\* ------------------------------------------------------------- mentions
\* Path(root).rglob(name): the existing entries strictly below root whose
\* last name is exactly `name` (the pattern holds no glob character), in the
\* order the walk meets them. Hidden entries are not left out.
rglob(dsk, root, name, walk) ==
    SelectSeq(walk, LAMBDA p : IsBelow(root, p) /\ Basename(p) = name /\ Exists(dsk, p))

\* The loop body of parse_mentions for one mention: the first match that is
\* a regular file, if any.
FirstFile(dsk, matches) ==
    LET files == SelectSeq(matches, LAMBDA p : IsFile(dsk, p))
    IN  IF files = <<>> THEN <<>> ELSE <<Head(files)>>

\* A faulty loop, for comparison: the first mention that resolves to
\* nothing ends the resolution.
RECURSIVE ResolveAllStopping(_, _, _, _)
ResolveAllStopping(dsk, root, mentions, walk) ==
    IF mentions = <<>> THEN <<>>
    ELSE LET found == FirstFile(dsk, rglob(dsk, root, Head(mentions), walk))
         IN  IF found = <<>> THEN <<>>
             ELSE found \o ResolveAllStopping(dsk, root, Tail(mentions), walk)

RECURSIVE ResolveAll(_, _, _, _)
ResolveAll(dsk, root, mentions, walk) ==
    IF mentions = <<>> THEN <<>>
    ELSE FirstFile(dsk, rglob(dsk, root, Head(mentions), walk))
             \o ResolveAll(dsk, root, Tail(mentions), walk)

\* AIWriter.parse_mentions(text) with self.root_folder = root.
parse_mentions(dsk, root, text, walk) ==
    IF root = NoPath THEN <<>> ELSE ResolveAll(dsk, root, FindAll(text), walk)

\* ------------------------------------------------------------- context
\* One element of context_parts. header, name and content are the text of
\* the part; path and step record where it came from.
Part(step, p, content) ==
    [ step    |-> step,
      header  |-> IF step = "current" THEN "Current File" ELSE "File",
      name    |-> Basename(p),
      content |-> content,
      path    |-> p ]

\* A faulty first loop, for comparison: the part holds the text the file
\* was opened with, not the buffer.
CurrentPartAsOpened(has_tab, tab_path, tab_text) ==
    IF has_tab /\ tab_path # NoPath THEN <<Part("current", tab_path, "orig")>> ELSE <<>>

\* The first loop of build_context: the open tab's buffer.
CurrentPart(has_tab, tab_path, tab_text) ==
    IF has_tab /\ tab_path # NoPath THEN <<Part("current", tab_path, tab_text)>> ELSE <<>>

\* The second loop: the files of self.file_contexts, in iteration order.
RECURSIVE ContextParts(_, _)
ContextParts(dsk, order) ==
    IF order = <<>> THEN <<>>
    ELSE (IF IsFile(dsk, Head(order)) /\ CanRead(dsk, Head(order))
          THEN <<Part("context", Head(order), dsk[Head(order)])>> ELSE <<>>)
             \o ContextParts(dsk, Tail(order))

\* A faulty third loop, for comparison: every readable mentioned file gets
\* a part, ticked or open or not.
RECURSIVE MentionPartsNoSkip(_, _, _, _, _)
MentionPartsNoSkip(dsk, contexts, has_tab, tab_path, mentioned) ==
    IF mentioned = <<>> THEN <<>>
    ELSE (IF CanRead(dsk, Head(mentioned))
          THEN <<Part("mention", Head(mentioned), dsk[Head(mentioned)])>> ELSE <<>>)
             \o MentionPartsNoSkip(dsk, contexts, has_tab, tab_path, Tail(mentioned))

\* The third loop: the mentioned files.
RECURSIVE MentionParts(_, _, _, _, _)
MentionParts(dsk, contexts, has_tab, tab_path, mentioned) ==
    IF mentioned = <<>> THEN <<>>
    ELSE (IF Head(mentioned) \notin contexts
             /\ (~has_tab \/ Head(mentioned) # tab_path)
             /\ CanRead(dsk, Head(mentioned))
          THEN <<Part("mention", Head(mentioned), dsk[Head(mentioned)])>> ELSE <<>>)
             \o MentionParts(dsk, contexts, has_tab, tab_path, Tail(mentioned))

\* AIWriter.build_context(mentioned_files): context_parts. `order` is the
\* iteration order of the set file_contexts.
build_context(dsk, has_tab, tab_path, tab_text, order, mentioned) ==
    CurrentPart(has_tab, tab_path, tab_text)
        \o ContextParts(dsk, order)
        \o MentionParts(dsk, SeqToSet(order), has_tab, tab_path, mentioned)

\* A faulty message list, for comparison: the "Files in context" message is
\* there even when the context is empty.
BuildMessagesAlwaysFiles(prompt, parts, user_message) ==
    <<[role |-> "system", kind |-> "persona", content |-> <<prompt>>],
      [role |-> "system", kind |-> "files", content |-> parts],
      [role |-> "user", kind |-> "user", content |-> user_message]>>

\* The message list of send_to_llama: "\n".join(context_parts) is empty
\* exactly when context_parts is, a part being never empty.
BuildMessages(prompt, parts, user_message) ==
    <<[role |-> "system", kind |-> "persona", content |-> <<prompt>>]>>
        \o (IF parts # <<>>
            THEN <<[role |-> "system", kind |-> "files", content |-> parts]>>
            ELSE <<>>)
        \o <<[role |-> "user", kind |-> "user", content |-> user_message]>>

\* ------------------------------------------------------------- config
DefaultUrl == "http://localhost:8080"
OtherUrl == "http://box:9000"
DefaultPrompt == "You are a helpful writing assistant."
OtherPrompt == "Be terse."
Urls == {DefaultUrl, OtherUrl}
Prompts == {DefaultPrompt, OtherPrompt}

\* Config.DEFAULT_CONFIG (temperature in tenths).
DEFAULT_CONFIG ==
    [ llama_cpp_url      |-> DefaultUrl,
      system_prompt      |-> DefaultPrompt,
      temperature        |-> 7,
      max_tokens         |-> 2000,
      context_max_tokens |-> 6000,
      editor_font        |-> "Monospace 11",
      theme              |-> "layan-dark",
      show_line_numbers  |-> TRUE,
      wrap_text          |-> TRUE ]

\* A faulty merge, for comparison: the defaults win over the loaded values.
OverlayDefaultsWin(defaults, loaded) ==
    [k \in DOMAIN defaults \cup DOMAIN loaded |->
        IF k \in DOMAIN defaults THEN defaults[k] ELSE loaded[k]]

\* {**defaults, **loaded}
Overlay(defaults, loaded) ==
    [k \in DOMAIN defaults \cup DOMAIN loaded |->
        IF k \in DOMAIN loaded THEN loaded[k] ELSE defaults[k]]

\* DEFAULT_CONFIG of the web backend: three keys more.
WEB_DEFAULT_CONFIG ==
    Overlay(DEFAULT_CONFIG,
            [default_folder |-> "", show_file_panel |-> TRUE, show_ai_panel |-> TRUE])

\* json.dump(config, f): the file holds a JSON object with the keys and
\* values of config.
JsonDump(c) == [json |-> "object", value |-> c]

\* Files json.dump never wrote: text that is not JSON, and JSON that is not
\* an object.
NotJson == [json |-> "invalid", value |-> [text |-> "{"]]
JsonArray == [json |-> "array", value |-> [text |-> "[]"]]

\* The store is <<>> when the file is missing, else <<document>>. Loading
\* raises when json.load does (JSONDecodeError) or when ** is applied to
\* what is not a mapping (TypeError); nothing catches either.
LoadRaises(st) == st # <<>> /\ st[1].json # "object"

\* Config.load() when it does not raise.
ConfigLoad(st) == IF st = <<>> THEN DEFAULT_CONFIG ELSE Overlay(DEFAULT_CONFIG, st[1].value)

\* load_config() of the web backend when it does not raise.
load_config(st) ==
    IF st = <<>> THEN WEB_DEFAULT_CONFIG ELSE Overlay(WEB_DEFAULT_CONFIG, st[1].value)

\* AIWriter.config of a process whose start-up raised: there is no window.
Crashed == [error |-> "Config.load raised"]

\* ------------------------------------------------------------- state
VARIABLES
    disk,               \* [Files -> FileStates]: the file system
    store,              \* the config file: <<>> or <<document>>
    root_folder,        \* AIWriter.root_folder (NoPath when None)
    file_store,         \* the tree rows: [path -> in_context]
    file_contexts,      \* AIWriter.file_contexts
    context_label,      \* the toolbar's context label: [count, noun]
    tabs,               \* AIWriter.tabs: sequence of [file_path, text, modified]
    current_tab_index,  \* AIWriter.current_tab_index (0-based, -1 when none)
    source_views,       \* the editor widget of each tab, in the order of tabs
    editor_stack,       \* AIWriter.editor_stack: its pages [name, child], oldest first
    visible_child,      \* the editor the stack shows (NoWidget when none)
    tab_box,            \* AIWriter.tab_box: per button, the editor it was made for
    config,             \* AIWriter.config
    dialog,             \* the open SettingsDialog's config copy: <<>> or <<dict>>
    chat_buffer,        \* the chat view's entries, oldest first
    workers,            \* one record per send_to_llama thread, in start order
    idle,               \* callbacks queued with GLib.idle_add, oldest first
    requests,           \* the POSTs issued to the model server, oldest first
    posted,             \* the sends in the order of their idle_add calls
    scripts,            \* one record per _run_script thread
    script_dialogs,     \* the script output windows shown, oldest first
    web                 \* the last exchange of the web backend's ai_chat

diskVars == <<disk, store>>
treeVars == <<root_folder, file_store, file_contexts, context_label>>
widgetVars == <<source_views, editor_stack, visible_child, tab_box>>
tabVars == <<tabs, current_tab_index, widgetVars>>
cfgVars == <<config, dialog>>
chatVars == <<chat_buffer, workers, idle, requests, posted>>
scriptVars == <<scripts, script_dialogs>>
vars == <<diskVars, treeVars, tabVars, cfgVars, chatVars, scriptVars, web>>

\* EditorTab(file_path) with its buffer.
EditorTab(file_path, text) == [file_path |-> file_path, text |-> text, modified |-> FALSE]

\* AIWriter.get_current_tab() is not None.
HasCurrentTab(tbs, idx) == 0 <= idx /\ idx < Len(tbs)

\* AIWriter.get_current_tab(), given that it is not None (tabs is 1-based here).
CurrentTab(tbs, idx) == tbs[idx + 1]

\* _add_tree_node / load_file_tree: a row for every entry at or below the
\* root that exists and has no dot-name on the way down from the root; a
\* file's flag says whether its path is in file_contexts. A root folder
\* whose own name starts with a dot gives no row at all.
TreeRows(dsk, root) ==
    IF root = NoPath THEN {}
    ELSE {p \in Dirs \cup Files :
            /\ p = root \/ IsBelow(root, p)
            /\ Exists(dsk, p)
            /\ \A k \in Len(root)..Len(p) : ~IsHiddenName(p[k])}

\* A folder change that forgets the ticks, for comparison: every row of the
\* rebuilt tree is unticked.
load_file_tree_unticked(dsk, root, contexts) ==
    [p \in TreeRows(dsk, root) |-> FALSE]

load_file_tree(dsk, root, contexts) ==
    [p \in TreeRows(dsk, root) |-> IF IsDir(dsk, p) THEN FALSE ELSE p \in contexts]

\* AIWriter.add_chat_message(sender, message), run by `thread` for send `req`.
add_chat_message(buf, sender, message, req, thread) ==
    Append(buf, [sender |-> sender, message |-> message, req |-> req, thread |-> thread])

\* The thread that runs the GTK main loop and every signal handler.
UI == [kind |-> "ui", id |-> 0]

\* The name of the worker thread of the i-th send.
Worker(i) == [kind |-> "worker", id |-> i]

\* The text update_context_label gives the label for a set of `count`
\* paths: "Context: {count} file" with an "s" unless count is 1.
ContextLabel(count) == [count |-> count, noun |-> IF count # 1 THEN "files" ELSE "file"]

\* update_context_label after file_contexts has become `contexts`.
update_context_label(contexts) == ContextLabel(Cardinality(contexts))

\* ------------------------------------------------------------- tree
\* A faulty folder change, for comparison: the context is pruned when the
\* tree is rebuilt.
on_folder_selected_pruning(folder) ==
    /\ dialog = <<>>
    /\ root_folder' = folder
    /\ file_contexts' = {}
    /\ file_store' = load_file_tree(disk, folder, {})
    /\ UNCHANGED <<diskVars, context_label, tabVars, cfgVars, chatVars, scriptVars, web>>

\* on_folder_selected: the user picks `folder` in the folder dialog.
on_folder_selected(folder) ==
    /\ dialog = <<>>
    /\ root_folder' = folder
    /\ file_store' = load_file_tree(disk, folder, file_contexts)
    /\ UNCHANGED <<diskVars, file_contexts, context_label, tabVars, cfgVars, chatVars,
                   scriptVars, web>>

\* on_context_toggled: the user clicks the check box of the row of p.
on_context_toggled(p) ==
    /\ dialog = <<>>
    /\ p \in DOMAIN file_store
    /\ IF ~IsFile(disk, p)
       THEN UNCHANGED <<file_store, file_contexts, context_label>>
       ELSE /\ file_store' = [file_store EXCEPT ![p] = ~file_store[p]]
            /\ file_contexts' = IF ~file_store[p] THEN file_contexts \cup {p}
                                ELSE file_contexts \ {p}
            /\ context_label' = update_context_label(file_contexts')
    /\ UNCHANGED <<diskVars, root_folder, tabVars, cfgVars, chatVars, scriptVars, web>>

\* on_clear_context: the Clear Context button.
on_clear_context ==
    /\ dialog = <<>>
    /\ file_contexts' = {}
    /\ file_store' = [p \in DOMAIN file_store |-> FALSE]
    /\ context_label' = update_context_label(file_contexts')
    /\ UNCHANGED <<diskVars, root_folder, tabVars, cfgVars, chatVars, scriptVars, web>>

\* ------------------------------------------------------------- tabs
\* switch_to_tab(index): the new current_tab_index.
\* get_child_by_name gives None for a name the stack does not hold.
NoWidget == 0

\* The editor widgets are told apart by identity; a new EditorTab's editor
\* is an object none of the live tabs, pages or buttons holds.
WidgetIds == 1..(2 * MaxTabs + 1)

\* The widget state of the editor panel, as one value.
Widgets == [views |-> source_views, stack |-> editor_stack,
            visible |-> visible_child, box |-> tab_box]

SetWidgets(w) ==
    /\ source_views' = w.views
    /\ editor_stack' = w.stack
    /\ visible_child' = w.visible
    /\ tab_box' = w.box

FreshWidget(w) ==
    CHOOSE id \in WidgetIds :
        /\ \A k \in 1..Len(w.views) : w.views[k] # id
        /\ \A k \in 1..Len(w.stack) : w.stack[k].child # id
        /\ \A k \in 1..Len(w.box) : w.box[k] # id
        /\ \A other \in WidgetIds :
              (/\ \A k \in 1..Len(w.views) : w.views[k] # other
               /\ \A k \in 1..Len(w.stack) : w.stack[k].child # other
               /\ \A k \in 1..Len(w.box) : w.box[k] # other) => id <= other

\* "tab_{index}": a page name is modelled by its number.
tab_name(index) == index

\* Gtk.Stack.get_child_by_name: the first page of that name.
get_child_by_name(stack, name) ==
    LET hits == {k \in 1..Len(stack) : stack[k].name = name}
    IN  IF hits = {} THEN NoWidget
        ELSE stack[CHOOSE k \in hits : \A j \in hits : k <= j].child

\* Gtk.Stack.set_visible_child_name: a name the stack does not hold is
\* warned about and changes nothing.
set_visible_child_name(stack, visible, name) ==
    IF get_child_by_name(stack, name) = NoWidget THEN visible
    ELSE get_child_by_name(stack, name)

\* Gtk.Stack.add_named: the page is appended, whether or not its name is
\* taken; a stack showing nothing shows the new page.
add_named(w, child, name) ==
    [w EXCEPT !.stack = Append(w.stack, [name |-> name, child |-> child]),
              !.visible = IF w.visible = NoWidget THEN child ELSE w.visible]

\* Gtk.Stack.remove leaves the pages but the one of child; what the stack
\* shows once the page it showed is gone is the toolkit's choice: nothing,
\* or the first page left.
StackWithout(stack, child) ==
    LET keep == {k \in 1..Len(stack) : stack[k].child # child}
        F[k \in 0..Len(stack)] ==
            IF k = 0 THEN <<>>
            ELSE IF k \in keep THEN Append(F[k - 1], stack[k]) ELSE F[k - 1]
    IN  F[Len(stack)]

VisibleAfterRemove(stack, visible, child) ==
    IF visible # child THEN {visible}
    ELSE {NoWidget} \cup (IF StackWithout(stack, child) = <<>> THEN {}
                          ELSE {StackWithout(stack, child)[1].child})

\* switch_to_tab, the stack's side: an index in range shows the page
\* named after it.
switch_to_tab_visible(w, ntabs, index) ==
    IF 0 <= index /\ index < ntabs
    THEN [w EXCEPT !.visible = set_visible_child_name(w.stack, w.visible, tab_name(index))]
    ELSE w

\* create_new_tab, the widgets' side, with ntabs tabs open before it: the
\* new editor becomes the page "tab_{ntabs}", its button is appended, and
\* switch_to_tab(ntabs) follows the append to tabs.
create_new_tab(w, ntabs) ==
    LET view == FreshWidget(w)
        added == add_named(w, view, tab_name(ntabs))
        listed == [added EXCEPT !.box = Append(added.box, view),
                                !.views = Append(added.views, view)]
    IN  switch_to_tab_visible(listed, ntabs + 1, ntabs)

switch_to_tab(tbs, cur, index) == IF 0 <= index /\ index < Len(tbs) THEN index ELSE cur

\* on_new_file: create_new_tab() appends an untitled tab and switches to it.
on_new_file ==
    /\ dialog = <<>>
    /\ Len(tabs) < MaxTabs
    /\ tabs' = Append(tabs, EditorTab(NoPath, "empty"))
    /\ current_tab_index' = switch_to_tab(tabs', current_tab_index, Len(tabs') - 1)
    /\ SetWidgets(create_new_tab(Widgets, Len(tabs)))
    /\ UNCHANGED <<diskVars, treeVars, cfgVars, chatVars, scriptVars, web>>

\* The tabs whose file is p, by 0-based index.
TabsOf(tbs, p) == {i \in 0..(Len(tbs) - 1) : tbs[i + 1].file_path = p}

Min(S) == CHOOSE x \in S : \A y \in S : x <= y

\* on_file_activated / open_file: a double click on the row of p. A file
\* already open is switched to; a file that cannot be read gives an error
\* entry in the chat.
on_file_activated(p) ==
    /\ dialog = <<>>
    /\ p \in DOMAIN file_store
    /\ IsFile(disk, p)
    /\ IF TabsOf(tabs, p) # {}
       THEN /\ current_tab_index' = switch_to_tab(tabs, current_tab_index, Min(TabsOf(tabs, p)))
            /\ SetWidgets(switch_to_tab_visible(Widgets, Len(tabs), Min(TabsOf(tabs, p))))
            /\ UNCHANGED <<tabs, chat_buffer>>
       ELSE IF CanRead(disk, p)
       THEN /\ Len(tabs) < MaxTabs
            /\ tabs' = Append(tabs, EditorTab(p, disk[p]))
            /\ current_tab_index' = switch_to_tab(tabs', current_tab_index, Len(tabs') - 1)
            /\ SetWidgets(create_new_tab(Widgets, Len(tabs)))
            /\ UNCHANGED chat_buffer
       ELSE /\ chat_buffer' = add_chat_message(chat_buffer, "Error", <<"Error opening file">>, 0, UI)
            /\ UNCHANGED tabVars
    /\ UNCHANGED <<diskVars, treeVars, cfgVars, workers, idle, requests, posted, scriptVars, web>>

\* The user types in the current tab's editor.
edit_buffer ==
    /\ dialog = <<>>
    /\ HasCurrentTab(tabs, current_tab_index)
    /\ tabs' = [tabs EXCEPT ![current_tab_index + 1].text = "edit",
                            ![current_tab_index + 1].modified = TRUE]
    /\ UNCHANGED <<diskVars, treeVars, current_tab_index, widgetVars, cfgVars, chatVars,
                   scriptVars, web>>

\* on_save_file / on_file_save_dialog / save_tab: the current tab is
\* written to its file, an untitled tab to the path p picked in the save
\* dialog; a file that cannot be written gives an error entry.
on_save_file(p) ==
    /\ dialog = <<>>
    /\ HasCurrentTab(tabs, current_tab_index)
    /\ LET tab == CurrentTab(tabs, current_tab_index)
           path == IF tab.file_path = NoPath THEN p ELSE tab.file_path
       IN  IF disk[path] = "bad"
           THEN /\ tabs' = [tabs EXCEPT ![current_tab_index + 1].file_path = path]
                /\ chat_buffer' = add_chat_message(chat_buffer, "Error",
                                                   <<"Error saving file">>, 0, UI)
                /\ UNCHANGED disk
           ELSE /\ disk' = [disk EXCEPT ![path] = tab.text]
                /\ tabs' = [tabs EXCEPT ![current_tab_index + 1].file_path = path,
                                        ![current_tab_index + 1].modified = FALSE]
                /\ chat_buffer' = add_chat_message(chat_buffer, "System",
                                                   <<"Saved ", Basename(path)>>, 0, UI)
    /\ UNCHANGED <<store, treeVars, current_tab_index, widgetVars, cfgVars, workers, idle,
                   requests, posted, scriptVars, web>>

RemoveAt(seq, k) == SubSeq(seq, 1, k - 1) \o SubSeq(seq, k + 1, Len(seq))

\* on_close_tab: the page "tab_{current_tab_index}" is taken off the
\* stack, then the current tab's button and the current tab are dropped;
\* the last tab closed is replaced by a fresh untitled one. No page is
\* renamed. With no page of that name get_child_by_name gives None, and
\* Gtk.Stack.remove(None) raises before anything is changed.
on_close_tab ==
    /\ dialog = <<>>
    /\ ~(current_tab_index < 0 \/ tabs = <<>>)
    /\ LET child == get_child_by_name(editor_stack, tab_name(current_tab_index))
           rest == RemoveAt(tabs, current_tab_index + 1)
           new_index == IF current_tab_index < Len(rest) - 1
                        THEN current_tab_index ELSE Len(rest) - 1
       IN  IF child = NoWidget
           THEN UNCHANGED tabVars
           ELSE \E shown \in VisibleAfterRemove(editor_stack, visible_child, child) :
                  LET removed == [views |-> RemoveAt(source_views, current_tab_index + 1),
                                  stack |-> StackWithout(editor_stack, child),
                                  visible |-> shown,
                                  box |-> RemoveAt(tab_box, current_tab_index + 1)]
                  IN  IF rest # <<>>
                      THEN /\ tabs' = rest
                           /\ current_tab_index' = switch_to_tab(rest, current_tab_index, new_index)
                           /\ SetWidgets(switch_to_tab_visible(removed, Len(rest), new_index))
                      ELSE /\ tabs' = <<EditorTab(NoPath, "empty")>>
                           /\ current_tab_index' = switch_to_tab(tabs', -1, 0)
                           /\ SetWidgets(create_new_tab(removed, 0))
    /\ UNCHANGED <<diskVars, treeVars, cfgVars, chatVars, scriptVars, web>>

\* A click on the button made for the editor view: its handler, the lambda
\* of create_new_tab, calls switch_to_tab(len(self.tabs)) with the length
\* the list has when the click happens.
on_tab_button_clicked(view) ==
    /\ dialog = <<>>
    /\ \E k \in 1..Len(tab_box) : tab_box[k] = view
    /\ current_tab_index' = switch_to_tab(tabs, current_tab_index, Len(tabs))
    /\ SetWidgets(switch_to_tab_visible(Widgets, Len(tabs), Len(tabs)))
    /\ UNCHANGED <<diskVars, treeVars, tabs, cfgVars, chatVars, scriptVars, web>>

\* ------------------------------------------------------------- settings
\* on_settings: the dialog copies the window's config.
on_settings ==
    /\ dialog = <<>>
    /\ config # Crashed
    /\ dialog' = <<config>>
    /\ UNCHANGED <<diskVars, treeVars, tabVars, config, chatVars, scriptVars, web>>

\* The Cancel button.
on_settings_cancel ==
    /\ dialog # <<>>
    /\ dialog' = <<>>
    /\ UNCHANGED <<diskVars, treeVars, tabVars, config, chatVars, scriptVars, web>>

\* A faulty Save, for comparison: only the keys of the default map are
\* written.
on_save_known_keys(url, prompt, temp) ==
    /\ dialog # <<>>
    /\ LET edited == [dialog[1] EXCEPT !.llama_cpp_url = url,
                                       !.system_prompt = prompt,
                                       !.temperature = temp]
           known == [k \in DOMAIN DEFAULT_CONFIG |-> edited[k]]
       IN  /\ store' = <<JsonDump(known)>>
           /\ config' = known
    /\ dialog' = <<>>
    /\ UNCHANGED <<disk, treeVars, tabVars, chatVars, scriptVars, web>>

\* A faulty Save, for comparison: the window takes the edited copy but the
\* file is not written.
on_save_unwritten(url, prompt, temp) ==
    /\ dialog # <<>>
    /\ config' = [dialog[1] EXCEPT !.llama_cpp_url = url,
                                   !.system_prompt = prompt,
                                   !.temperature = temp]
    /\ dialog' = <<>>
    /\ UNCHANGED <<diskVars, treeVars, tabVars, chatVars, scriptVars, web>>

\* SettingsDialog.on_save with the widgets holding url, prompt and temp: the
\* copy takes the widgets' values, is written to the store and becomes the
\* window's config.
on_save(url, prompt, temp) ==
    /\ dialog # <<>>
    /\ LET edited == [dialog[1] EXCEPT !.llama_cpp_url = url,
                                       !.system_prompt = prompt,
                                       !.temperature = temp]
       IN  /\ store' = <<JsonDump(edited)>>
           /\ config' = edited
    /\ dialog' = <<>>
    /\ UNCHANGED <<disk, treeVars, tabVars, chatVars, scriptVars, web>>

\* ------------------------------------------------------------- sending
\* A worker whose POST has not returned or raised yet.
NoResponse == [kind |-> "none", status |-> 0]

\* A faulty send, for comparison: the entry is ignored while an earlier
\* worker has not ended.
on_send_to_ai_when_idle(text, walk) ==
    /\ dialog = <<>>
    /\ \A i \in 1..Len(workers) : workers[i].pc = "done"
    /\ LET user_message == Strip(text)
           has_tab == HasCurrentTab(tabs, current_tab_index)
           tab == CurrentTab(tabs, current_tab_index)
       IN  IF user_message = <<>>
           THEN UNCHANGED <<chat_buffer, workers>>
           ELSE /\ chat_buffer' = add_chat_message(chat_buffer, "You", user_message,
                                                   Len(workers) + 1, UI)
                /\ workers' = Append(workers,
                      [ pc              |-> "start",
                        user_message    |-> user_message,
                        mentioned_files |-> parse_mentions(disk, root_folder, user_message, walk),
                        snap            |-> [ file_contexts |-> file_contexts,
                                              has_tab  |-> has_tab,
                                              tab_path |-> IF has_tab THEN tab.file_path ELSE NoPath,
                                              tab_text |-> IF has_tab THEN tab.text ELSE "empty",
                                              config   |-> config ],
                        has_tab         |-> FALSE,
                        tab_path        |-> NoPath,
                        tab_text        |-> "empty",
                        it_used         |-> 0,
                        context_parts   |-> <<>>,
                        messages        |-> <<>>,
                        snap_messages   |-> <<>>,
                        response        |-> NoResponse ])
    /\ UNCHANGED <<diskVars, treeVars, tabVars, cfgVars, idle, requests, posted, scriptVars, web>>

\* A faulty send, for comparison: the thread is started first and the
\* "You" entry is left to the main loop.
on_send_to_ai_entry_queued(text, walk) ==
    /\ dialog = <<>>
    /\ LET user_message == Strip(text)
           has_tab == HasCurrentTab(tabs, current_tab_index)
           tab == CurrentTab(tabs, current_tab_index)
       IN  IF user_message = <<>>
           THEN UNCHANGED <<chat_buffer, workers, idle>>
           ELSE /\ idle' = Append(idle, [fn |-> "add_chat_message", sender |-> "You",
                                         message |-> user_message, req |-> Len(workers) + 1])
                /\ workers' = Append(workers,
                      [ pc              |-> "start",
                        user_message    |-> user_message,
                        mentioned_files |-> parse_mentions(disk, root_folder, user_message, walk),
                        snap            |-> [ file_contexts |-> file_contexts,
                                              has_tab  |-> has_tab,
                                              tab_path |-> IF has_tab THEN tab.file_path ELSE NoPath,
                                              tab_text |-> IF has_tab THEN tab.text ELSE "empty",
                                              config   |-> config ],
                        has_tab         |-> FALSE,
                        tab_path        |-> NoPath,
                        tab_text        |-> "empty",
                        it_used         |-> 0,
                        context_parts   |-> <<>>,
                        messages        |-> <<>>,
                        snap_messages   |-> <<>>,
                        response        |-> NoResponse ])
                /\ UNCHANGED chat_buffer
    /\ UNCHANGED <<diskVars, treeVars, tabVars, cfgVars, requests, posted, scriptVars, web>>

\* on_send_to_ai with `text` in the entry; `walk` is the order in which the
\* disk is walked. An entry that is empty once stripped does nothing. The
\* worker's record starts with the thread's arguments; `snap` keeps the
\* window's state as it is now.
on_send_to_ai(text, walk) ==
    /\ dialog = <<>>
    /\ LET user_message == Strip(text)
           mentioned_files == parse_mentions(disk, root_folder, user_message, walk)
           has_tab == HasCurrentTab(tabs, current_tab_index)
           tab == CurrentTab(tabs, current_tab_index)
       IN  IF user_message = <<>>
           THEN UNCHANGED <<chat_buffer, workers>>
           ELSE /\ chat_buffer' = add_chat_message(chat_buffer, "You", user_message,
                                                   Len(workers) + 1, UI)
                /\ workers' = Append(workers,
                      [ pc              |-> "start",
                        user_message    |-> user_message,
                        mentioned_files |-> mentioned_files,
                        snap            |-> [ file_contexts |-> file_contexts,
                                              has_tab  |-> has_tab,
                                              tab_path |-> IF has_tab THEN tab.file_path ELSE NoPath,
                                              tab_text |-> IF has_tab THEN tab.text ELSE "empty",
                                              config   |-> config ],
                        has_tab         |-> FALSE,
                        tab_path        |-> NoPath,
                        tab_text        |-> "empty",
                        it_used         |-> 0,
                        context_parts   |-> <<>>,
                        messages        |-> <<>>,
                        snap_messages   |-> <<>>,
                        response        |-> NoResponse ])
    /\ UNCHANGED <<diskVars, treeVars, tabVars, cfgVars, idle, requests, posted, scriptVars, web>>

\* A faulty report, for comparison: the worker of send i calls
\* add_chat_message itself.
PostResultDirect(i, sender, message) ==
    /\ chat_buffer' = add_chat_message(chat_buffer, sender, message, i, Worker(i))
    /\ posted' = Append(posted, i)
    /\ UNCHANGED idle

\* GLib.idle_add(self.add_chat_message, sender, message) called by the
\* worker of send i: the callback is queued for the main loop.
PostResult(i, sender, message) ==
    /\ idle' = Append(idle, [fn |-> "add_chat_message", sender |-> sender,
                             message |-> message, req |-> i])
    /\ posted' = Append(posted, i)
    /\ UNCHANGED chat_buffer

\* build_context, first half, on the worker of send i: the current tab and
\* its buffer are read and the iteration of file_contexts starts.
BuildBegin(i) ==
    /\ i \in 1..Len(workers)
    /\ workers[i].pc = "start"
    /\ LET has_tab == HasCurrentTab(tabs, current_tab_index)
           tab == CurrentTab(tabs, current_tab_index)
       IN  workers' = [workers EXCEPT
               ![i].pc = "iter",
               ![i].has_tab = has_tab,
               ![i].tab_path = IF has_tab THEN tab.file_path ELSE NoPath,
               ![i].tab_text = IF has_tab THEN tab.text ELSE "empty",
               ![i].it_used = Cardinality(file_contexts)]
    /\ UNCHANGED <<diskVars, treeVars, tabVars, cfgVars, chat_buffer, idle, requests, posted,
                   scriptVars, web>>

\* The messages send_to_llama builds from what the worker read.
WorkerMessages(w, prompt, parts) == BuildMessages(prompt, parts, w.user_message)

\* build_context, second half, and the message list. A set whose size
\* changed since the iteration started raises RuntimeError, which
\* send_to_llama reports; otherwise the files of the set are read in some
\* iteration order, then the mentioned files. snap_messages is the list the
\* state kept at dispatch gives with the disk as it is now.
BuildEnd(i) ==
    /\ i \in 1..Len(workers)
    /\ workers[i].pc = "iter"
    /\ LET w == workers[i]
       IN  IF Cardinality(file_contexts) # w.it_used
           THEN /\ workers' = [workers EXCEPT ![i].pc = "done"]
                /\ PostResult(i, "Error", <<"Error: ", "Set changed size during iteration">>)
           ELSE /\ \E order \in Perms(file_contexts) :
                     LET parts == build_context(disk, w.has_tab, w.tab_path, w.tab_text,
                                                order, w.mentioned_files)
                         snap_order == IF w.snap.file_contexts = file_contexts THEN order
                                       ELSE CHOOSE o \in Perms(w.snap.file_contexts) : TRUE
                         snap_parts == build_context(disk, w.snap.has_tab, w.snap.tab_path,
                                                     w.snap.tab_text, snap_order,
                                                     w.mentioned_files)
                     IN  workers' = [workers EXCEPT
                             ![i].pc = "built",
                             ![i].context_parts = parts,
                             ![i].messages = WorkerMessages(w, config.system_prompt, parts),
                             ![i].snap_messages =
                                 WorkerMessages(w, w.snap.config.system_prompt, snap_parts)]
                /\ UNCHANGED <<idle, posted, chat_buffer>>
    /\ UNCHANGED <<diskVars, treeVars, tabVars, cfgVars, requests, scriptVars, web>>

\* requests.post(url + "/v1/chat/completions", json = {...}, timeout = 120)
\* issued by `thread` for send i.
HttpPost(log, i, thread, cfg, messages) ==
    Append(log, [ req         |-> i,
                  thread      |-> thread,
                  url         |-> cfg.llama_cpp_url,
                  messages    |-> messages,
                  temperature |-> cfg.temperature,
                  max_tokens  |-> cfg.max_tokens ])

\* The worker of send i issues its POST.
SendRequest(i) ==
    /\ i \in 1..Len(workers)
    /\ workers[i].pc = "built"
    /\ requests' = HttpPost(requests, i, Worker(i), config, workers[i].messages)
    /\ workers' = [workers EXCEPT ![i].pc = "inflight"]
    /\ UNCHANGED <<diskVars, treeVars, tabVars, cfgVars, chat_buffer, idle, posted, scriptVars, web>>

\* What the POST may come to: a 200 with a well-formed or a malformed body,
\* another status, a refused connection, a timeout while connecting
\* (ConnectTimeout, a ConnectionError) or while reading (ReadTimeout), any
\* other exception.
Statuses == {500, 204}
Outcomes ==
    {[kind |-> k, status |-> 200] : k \in {"ok", "malformed"}}
        \cup {[kind |-> "status", status |-> c] : c \in Statuses}
        \cup {[kind |-> k, status |-> 0] :
                 k \in {"refused", "connect_timeout", "read_timeout", "other"}}

\* The sender and the text of the chat entry send_to_llama posts for an outcome.
ResultSender(o) == IF o.kind = "ok" THEN "AI" ELSE "Error"

\* A faulty text, for comparison: the status code is left out.
ResultMessageNoCode(o) ==
    CASE o.kind = "ok" -> <<"reply">>
      [] o.kind = "status" -> <<"API error: ", "status">>
      [] o.kind \in {"refused", "connect_timeout"} ->
             <<"Cannot connect to llama.cpp server. Is it running on port ", "8080", "?">>
      [] OTHER -> <<"Error: ", o.kind>>

ResultMessage(o) ==
    CASE o.kind = "ok" -> <<"reply">>
      [] o.kind = "status" -> <<"API error: ", ToString(o.status)>>
      [] o.kind \in {"refused", "connect_timeout"} ->
             <<"Cannot connect to llama.cpp server. Is it running on port ", "8080", "?">>
      [] OTHER -> <<"Error: ", o.kind>>

\* A faulty worker, for comparison: a 200 whose body is malformed ends the
\* thread with nothing posted.
RespondLosesMalformed(i, o) ==
    /\ i \in 1..Len(workers)
    /\ workers[i].pc = "inflight"
    /\ workers' = [workers EXCEPT ![i].pc = "done", ![i].response = o]
    /\ IF o.kind = "malformed"
       THEN UNCHANGED <<idle, posted, chat_buffer>>
       ELSE /\ idle' = Append(idle, [fn |-> "add_chat_message", sender |-> ResultSender(o),
                                     message |-> ResultMessage(o), req |-> i])
            /\ posted' = Append(posted, i)
            /\ UNCHANGED chat_buffer
    /\ UNCHANGED <<diskVars, treeVars, tabVars, cfgVars, requests, scriptVars, web>>

\* A faulty worker, for comparison: a first failure makes it POST again.
RespondRetrying(i, o) ==
    /\ i \in 1..Len(workers)
    /\ workers[i].pc = "inflight"
    /\ IF o.kind # "ok" /\ Cardinality({r \in 1..Len(requests) : requests[r].req = i}) < 2
       THEN /\ requests' = HttpPost(requests, i, Worker(i), config, workers[i].messages)
            /\ UNCHANGED <<workers, idle, posted, chat_buffer>>
       ELSE /\ workers' = [workers EXCEPT ![i].pc = "done", ![i].response = o]
            /\ idle' = Append(idle, [fn |-> "add_chat_message", sender |-> ResultSender(o),
                                     message |-> ResultMessage(o), req |-> i])
            /\ posted' = Append(posted, i)
            /\ UNCHANGED <<chat_buffer, requests>>
    /\ UNCHANGED <<diskVars, treeVars, tabVars, cfgVars, scriptVars, web>>

\* The POST of send i returns or raises, and the worker posts its result.
Respond(i, o) ==
    /\ i \in 1..Len(workers)
    /\ workers[i].pc = "inflight"
    /\ workers' = [workers EXCEPT ![i].pc = "done", ![i].response = o]
    /\ PostResult(i, ResultSender(o), ResultMessage(o))
    /\ UNCHANGED <<diskVars, treeVars, tabVars, cfgVars, requests, scriptVars, web>>

\* ------------------------------------------------------------- scripts
\* _run_script(script_path): a thread is started for the script.
run_script ==
    /\ dialog = <<>>
    /\ root_folder # NoPath
    /\ scripts' = Append(scripts, [pc |-> "running"])
    /\ UNCHANGED <<diskVars, treeVars, tabVars, cfgVars, chatVars, script_dialogs, web>>

\* How subprocess.run may end: the script exits, TimeoutExpired after 300
\* seconds, or another exception (the interpreter cannot be started).
ScriptOutcomes == {"exited", "timeout", "exception"}

\* The stderr text and the exit code _show_script_output is given.
ScriptReport(o) ==
    CASE o = "exited" -> <<"stderr of the script", "0">>
      [] o = "timeout" -> <<"Script timed out after 300 seconds.", "-1">>
      [] OTHER -> <<"str(e)", "-1">>

\* run() of _run_script for the j-th script: exactly one branch queues
\* _show_script_output.
ScriptEnd(j, o) ==
    /\ j \in 1..Len(scripts)
    /\ scripts[j].pc = "running"
    /\ scripts' = [scripts EXCEPT ![j].pc = "done"]
    /\ idle' = Append(idle, [fn |-> "_show_script_output", sender |-> "script",
                             message |-> ScriptReport(o), req |-> j])
    /\ UNCHANGED <<diskVars, treeVars, tabVars, cfgVars, chat_buffer, workers, requests, posted,
                   script_dialogs, web>>

\* ------------------------------------------------------------- main loop
\* A faulty main loop, for comparison: the newest callback runs first.
NextIdleNewest(queue) == Len(queue)

\* The position in the queue of the callback the main loop runs next: idle
\* sources of one priority are dispatched in the order they were added.
NextIdle(queue) == 1

\* One iteration of the GTK main loop with a pending idle callback: it runs
\* on the UI thread and, returning None, is removed.
IdleDispatch ==
    /\ idle # <<>>
    /\ LET k == NextIdle(idle)
           cb == idle[k]
       IN  /\ idle' = RemoveAt(idle, k)
           /\ IF cb.fn = "add_chat_message"
              THEN /\ chat_buffer' = add_chat_message(chat_buffer, cb.sender, cb.message,
                                                      cb.req, UI)
                   /\ UNCHANGED script_dialogs
              ELSE /\ script_dialogs' = Append(script_dialogs,
                                               [script |-> cb.req, report |-> cb.message])
                   /\ UNCHANGED chat_buffer
    /\ UNCHANGED <<diskVars, treeVars, tabVars, cfgVars, workers, requests, posted, scripts, web>>

\* ------------------------------------------------------------- web
\* The context loop of ai_chat: the files of the request that exist and can
\* be read, in the order given.
RECURSIVE WebParts(_, _)
WebParts(dsk, context_files) ==
    IF context_files = <<>> THEN <<>>
    ELSE (IF IsFile(dsk, Head(context_files)) /\ CanRead(dsk, Head(context_files))
          THEN <<Part("context", Head(context_files), dsk[Head(context_files)])>> ELSE <<>>)
             \o WebParts(dsk, Tail(context_files))

\* The JSON body and the HTTP status ai_chat answers with for an outcome.
WebAnswer(o, url) ==
    CASE o.kind = "ok" -> [status |-> 200, key |-> "response", text |-> <<"reply">>]
      [] o.kind = "status" ->
             [status |-> 502, key |-> "error", text |-> <<"API error: ", ToString(o.status)>>]
      [] o.kind \in {"refused", "connect_timeout"} ->
             [status |-> 502, key |-> "error", text |-> <<"Cannot connect to llama.cpp server.">>]
      [] OTHER -> [status |-> 500, key |-> "error", text |-> <<"str(e)", o.kind>>]

\* POST /api/ai/chat with {message, context_files}: the config is loaded
\* from the store, the messages are built, one POST is made and answered.
ai_chat(message, context_files, o) ==
    /\ ~LoadRaises(store)
    /\ LET cfg == load_config(store)
           messages == BuildMessages(cfg.system_prompt, WebParts(disk, context_files), message)
       IN  web' = [ message  |-> message,
                    context_files |-> context_files,
                    messages |-> messages,
                    response |-> o,
                    posts    |-> HttpPost(<<>>, 0, [kind |-> "web", id |-> 0], cfg, messages),
                    answer   |-> WebAnswer(o, cfg.llama_cpp_url) ]
    /\ UNCHANGED <<diskVars, treeVars, tabVars, cfgVars, chatVars, scriptVars>>

\* An exchange with the config API of the web backend.
ConfigExchange(request, answer) ==
    [ message |-> <<request>>, context_files |-> <<>>, messages |-> <<>>, posts |-> <<>>,
      response |-> NoResponse, answer |-> answer ]

\* The answer to a request whose handler raised.
InternalServerError == [status |-> 500, key |-> "error", text |-> <<"Internal Server Error">>]

\* GET /api/config: jsonify(load_config()).
get_config ==
    /\ web' = ConfigExchange("GET /api/config",
                  IF LoadRaises(store) THEN InternalServerError
                  ELSE [status |-> 200, key |-> "config", text |-> load_config(store)])
    /\ UNCHANGED <<diskVars, treeVars, tabVars, cfgVars, chatVars, scriptVars>>

\* POST /api/config with the JSON object `body`: the loaded config is
\* updated with it, saved and returned.
set_config(body) ==
    /\ IF LoadRaises(store)
       THEN /\ web' = ConfigExchange("POST /api/config", InternalServerError)
            /\ UNCHANGED store
       ELSE LET cfg == Overlay(load_config(store), body)
            IN  /\ store' = <<JsonDump(cfg)>>
                /\ web' = ConfigExchange("POST /api/config",
                              [status |-> 200, key |-> "config", text |-> cfg])
    /\ UNCHANGED <<disk, treeVars, tabVars, cfgVars, chatVars, scriptVars>>

\* Config.save(c) / save_config(c) applied to a config object c.
Config_save(c) ==
    /\ store' = <<JsonDump(c)>>
    /\ UNCHANGED <<disk, treeVars, tabVars, cfgVars, chatVars, scriptVars, web>>

\* ------------------------------------------------------------- disk
\* Another program deletes, creates or spoils the file at p.
disk_change(p, st) ==
    /\ p \in Files
    /\ st \in {"absent", "bad", "orig"}
    /\ disk[p] # st
    /\ disk' = [disk EXCEPT ![p] = st]
    /\ UNCHANGED <<store, treeVars, tabVars, cfgVars, chatVars, scriptVars, web>>

\* ------------------------------------------------------------- start
\* The web backend before its first request.
NoExchange ==
    [ message |-> <<>>, context_files |-> <<>>, messages |-> <<>>, posts |-> <<>>,
      response |-> NoResponse,
      answer |-> [status |-> 0, key |-> "", text |-> <<>>] ]

\* The window with no send made yet: on disk dsk with store st, folder root
\* open, the files of contexts ticked in the tree, the tabs tbs of which the
\* one at cur is current, and config cfg.
Window(dsk, st, root, contexts, tbs, cur, cfg) ==
    /\ disk = dsk
    /\ store = st
    /\ root_folder = root
    /\ file_store = load_file_tree(dsk, root, contexts)
    /\ file_contexts = contexts
    /\ context_label = update_context_label(contexts)
    /\ tabs = tbs
    /\ current_tab_index = cur
    /\ source_views = [k \in 1..Len(tbs) |-> k]
    /\ editor_stack = [k \in 1..Len(tbs) |-> [name |-> tab_name(k - 1), child |-> k]]
    /\ visible_child = IF 0 <= cur /\ cur < Len(tbs) THEN cur + 1 ELSE NoWidget
    /\ tab_box = [k \in 1..Len(tbs) |-> k]
    /\ config = cfg
    /\ dialog = <<>>
    /\ chat_buffer = <<>>
    /\ workers = <<>>
    /\ idle = <<>>
    /\ requests = <<>>
    /\ posted = <<>>
    /\ scripts = <<>>
    /\ script_dialogs = <<>>
    /\ web = NoExchange

\* AIWriter.__init__ on disk dsk and store st: the config is loaded, no
\* folder is open, the context is empty and create_new_tab() has made one
\* untitled tab.
Started(dsk, st) ==
    Window(dsk, st, NoPath, {}, <<EditorTab(NoPath, "empty")>>, 0,
           IF LoadRaises(st) THEN Crashed ELSE ConfigLoad(st))

\* The application is closed and started again: AIWriter.__init__ on the
\* disk and the store as they are.
AppStart ==
    /\ config' = IF LoadRaises(store) THEN Crashed ELSE ConfigLoad(store)
    /\ dialog' = <<>>
    /\ root_folder' = NoPath
    /\ file_store' = load_file_tree(disk, NoPath, {})
    /\ file_contexts' = {}
    /\ context_label' = ContextLabel(0)
    /\ tabs' = <<EditorTab(NoPath, "empty")>>
    /\ current_tab_index' = 0
    /\ SetWidgets(create_new_tab([views |-> <<>>, stack |-> <<>>, visible |-> NoWidget,
                                  box |-> <<>>], 0))
    /\ chat_buffer' = <<>>
    /\ workers' = <<>>
    /\ idle' = <<>>
    /\ requests' = <<>>
    /\ posted' = <<>>
    /\ scripts' = <<>>
    /\ script_dialogs' = <<>>
    /\ UNCHANGED <<diskVars, web>>

\* ------------------------------------------------------------- specifications
FullDisk == [p \in Files |-> "orig"]

\* What the user may type in the chat entry in the orchestration
\* specifications: blanks, plain text, a mention.
ChatInputs == {<<" ">>, <<"a">>, <<"@", "a">>}

\* The sends of the desktop window: the user sends up to MaxSends messages,
\* each worker builds its request, posts it and reports the outcome, and
\* the main loop runs the queued callbacks.
Init == Started(FullDisk, <<>>)

Next ==
    \/ \E text \in ChatInputs, walk \in TraversalOrders :
           Len(workers) < MaxSends /\ on_send_to_ai(text, walk)
    \/ \E i \in 1..MaxSends : BuildBegin(i)
    \/ \E i \in 1..MaxSends : BuildEnd(i)
    \/ \E i \in 1..MaxSends : SendRequest(i)
    \/ \E i \in 1..MaxSends, o \in Outcomes : Respond(i, o)
    \/ IdleDispatch

Spec == Init /\ [][Next]_vars

\* The message lists. The window is taken after the user has opened the top
\* folder, ticked some files, opened a file or not and saved a persona
\* prompt or not, on a disk where the file "a" is readable, unreadable or
\* gone. A run then exercises the desktop window or the web backend: the
\* two share only the disk and the store, which no send changes.
MsgFiles == {FileA, FileBB}
MsgDisks == {[FullDisk EXCEPT ![FileA] = st] : st \in {"orig", "bad", "absent"}}
MsgTabs == {<<EditorTab(NoPath, "empty")>>, <<EditorTab(NoPath, "empty"), EditorTab(FileBB, "orig")>>}
SavedConfig(prompt) == [DEFAULT_CONFIG EXCEPT !.system_prompt = prompt]

MsgInit ==
    \E dsk \in MsgDisks, contexts \in SUBSET MsgFiles, tbs \in MsgTabs, prompt \in Prompts :
        Window(dsk, IF prompt = DefaultPrompt THEN <<>> ELSE <<JsonDump(SavedConfig(prompt))>>,
               TopDir, contexts, tbs, Len(tbs) - 1, SavedConfig(prompt))

MsgOutcomes == {o \in Outcomes : o.kind \in {"ok", "status"}}

MsgNext ==
    \/ \E text \in ChatInputs, walk \in TraversalOrders :
           Len(workers) < MaxSends /\ web = NoExchange /\ on_send_to_ai(text, walk)
    \/ \E i \in 1..MaxSends : BuildBegin(i)
    \/ \E i \in 1..MaxSends : BuildEnd(i)
    \/ \E i \in 1..MaxSends : SendRequest(i)
    \/ \E i \in 1..MaxSends, o \in MsgOutcomes : Respond(i, o)
    \/ IdleDispatch
    \/ \E text \in ChatInputs, files \in SeqsUpTo(MsgFiles, MaxWebFiles), o \in MsgOutcomes :
           workers = <<>> /\ ai_chat(text, files, o)

MsgSpec == MsgInit /\ [][MsgNext]_vars

\* The window under the user's hands while one send is under way: the tree,
\* the tabs and the settings change between the worker's steps.
RaceConfigs == {<<DefaultUrl, DefaultPrompt>>, <<OtherUrl, OtherPrompt>>}
RaceInputs == {<<"@", "a">>}
RaceOutcomes == {o \in Outcomes : o.kind = "ok"}

RaceNext ==
    \/ \E folder \in {TopDir} : on_folder_selected(folder)
    \/ \E p \in {FileA} : on_context_toggled(p)
    \/ on_clear_context
    \/ \E p \in {FileA} : on_file_activated(p)
    \/ on_new_file
    \/ edit_buffer
    \/ on_close_tab
    \/ on_settings
    \/ on_settings_cancel
    \/ \E c \in RaceConfigs : on_save(c[1], c[2], 7)
    \/ \E text \in RaceInputs, walk \in TraversalOrders :
           Len(workers) < 1 /\ on_send_to_ai(text, walk)
    \/ BuildBegin(1)
    \/ BuildEnd(1)
    \/ SendRequest(1)
    \/ \E o \in RaceOutcomes : Respond(1, o)
    \/ IdleDispatch

RaceSpec == Init /\ [][RaceNext]_vars

\* build_context on every window: the files "a", "b/a" and "b/b" readable,
\* unreadable or gone, any of them ticked (a ticked file may since have been
\* deleted), a file open or not, its buffer edited or not. The user sends a
\* message made of mentions only.
CtxFiles == {FileA, FileBA, FileBB}
CtxDisks == {d \in [Files -> {"absent", "bad", "orig"}] :
                d[FileDotA] = "orig" /\ d[FileDotBA] = "absent"}
CtxTabs == {<<EditorTab(NoPath, "empty")>>}
               \cup {<<EditorTab(NoPath, "empty"), EditorTab(p, "orig")>> : p \in {FileA, FileBB}}
               \cup {<<EditorTab(NoPath, "empty"),
                       [file_path |-> FileA, text |-> "edit", modified |-> TRUE]>>}
MentionsOnly(t) ==
    /\ t # <<>>
    /\ t[Len(t)] # "@"
    /\ \A k \in 1..Len(t) : t[k] = "@" \/ (IsWordChar(t[k]) /\ k > 1)
    /\ \A k \in 1..(Len(t) - 1) : ~(t[k] = "@" /\ t[k + 1] = "@")
CtxInputs == {t \in TextsUpTo(MaxTextLen) : MentionsOnly(t)}

CtxInit ==
    \E dsk \in CtxDisks, contexts \in SUBSET CtxFiles, tbs \in CtxTabs :
        Window(dsk, <<>>, TopDir, contexts, tbs, Len(tbs) - 1, DEFAULT_CONFIG)

CtxNext ==
    \/ \E text \in CtxInputs, walk \in TraversalOrders :
           Len(workers) < 1 /\ on_send_to_ai(text, walk)
    \/ BuildBegin(1)
    \/ BuildEnd(1)

CtxSpec == CtxInit /\ [][CtxNext]_vars

\* Sends and script runs under fair scheduling: a started thread runs on,
\* a POST returns or raises within its timeout, a script run ends within
\* its timeout, and the main loop runs a queued callback.
FairInit ==
    Window(FullDisk, <<>>, TopDir, {}, <<EditorTab(NoPath, "empty")>>, 0, DEFAULT_CONFIG)

FairNext ==
    \/ Next
    \/ Len(scripts) < MaxScripts /\ run_script
    \/ \E j \in 1..MaxScripts, o \in ScriptOutcomes : ScriptEnd(j, o)

Fairness ==
    /\ \A i \in 1..MaxSends :
           /\ WF_vars(BuildBegin(i))
           /\ WF_vars(BuildEnd(i))
           /\ WF_vars(SendRequest(i))
           /\ WF_vars(\E o \in Outcomes : Respond(i, o))
    /\ \A j \in 1..MaxScripts : WF_vars(\E o \in ScriptOutcomes : ScriptEnd(j, o))
    /\ WF_vars(IdleDispatch)

FairSpec == FairInit /\ [][FairNext]_vars /\ Fairness

\* parse_mentions on every chat input of at most MaxTextLen characters, on
\* every disk whose files are there or not, with no folder, the top folder
\* or a subfolder open.
MentionInit == \E dsk \in [Files -> {"absent", "orig"}] : Started(dsk, <<>>)

MentionNext ==
    \/ \E folder \in {TopDir, DirB} : on_folder_selected(folder)
    \/ \E text \in TextsUpTo(MaxTextLen), walk \in TraversalOrders :
           Len(workers) < 1 /\ on_send_to_ai(text, walk)

MentionSpec == MentionInit /\ [][MentionNext]_vars

\* The failures of the model server. The window, or the web backend, has
\* the default URL or a saved one; the server answers each POST with any of
\* the outcomes.
UrlConfig(url) == [DEFAULT_CONFIG EXCEPT !.llama_cpp_url = url]

ErrInit ==
    \E url \in Urls :
        Window(FullDisk, IF url = DefaultUrl THEN <<>> ELSE <<JsonDump(UrlConfig(url))>>,
               NoPath, {}, <<EditorTab(NoPath, "empty")>>, 0, UrlConfig(url))

ErrNext ==
    \/ \E text \in ChatInputs, walk \in TraversalOrders :
           Len(workers) < MaxSends /\ web = NoExchange /\ on_send_to_ai(text, walk)
    \/ \E i \in 1..MaxSends : BuildBegin(i)
    \/ \E i \in 1..MaxSends : BuildEnd(i)
    \/ \E i \in 1..MaxSends : SendRequest(i)
    \/ \E i \in 1..MaxSends, o \in Outcomes : Respond(i, o)
    \/ IdleDispatch
    \/ \E text \in ChatInputs, files \in SeqsUpTo(MsgFiles, MaxWebFiles), o \in Outcomes :
           workers = <<>> /\ ai_chat(text, files, o)

ErrSpec == ErrInit /\ [][ErrNext]_vars

\* The config store. The file is missing, holds an object with some of the
\* keys, one of them unknown to both programs, or holds something else; the
\* desktop window and the web backend share it. Objects are saved and
\* loaded, the settings dialog and the config API resave, the application
\* is started again.
ExtraKey == "plugin"
ConfigObjects ==
    { [temperature |-> 12],
      [plugin |-> "on"],
      [plugin |-> "off"],
      [temperature |-> 12, plugin |-> "on"],
      [llama_cpp_url |-> OtherUrl, default_folder |-> "docs"] }
StoreStates == {<<>>, <<NotJson>>, <<JsonArray>>, <<JsonDump([plugin |-> "on"])>>}

ConfigInit == \E st \in StoreStates : Started(FullDisk, st)

ConfigNext ==
    \/ \E c \in ConfigObjects : Config_save(c)
    \/ AppStart
    \/ on_settings
    \/ on_settings_cancel
    \/ \E url \in Urls : on_save(url, DefaultPrompt, 7)
    \/ get_config
    \/ \E body \in ConfigObjects : set_config(body)

ConfigSpec == ConfigInit /\ [][ConfigNext]_vars

\* The context set under every action of the window: the tree, the tabs,
\* the settings, one send and its worker, while the file "a" is deleted,
\* spoiled or written again by another program.
FrameNext ==
    \/ \E folder \in {TopDir} : on_folder_selected(folder)
    \/ \E p \in {FileA} : on_context_toggled(p)
    \/ on_clear_context
    \/ \E p \in {FileA} : on_file_activated(p)
    \/ on_close_tab
    \/ \E p \in {FileBB} : Len(chat_buffer) < MaxChat /\ on_save_file(p)
    \/ on_settings
    \/ on_settings_cancel
    \/ on_save(OtherUrl, OtherPrompt, 7)
    \/ \E st \in {"absent", "orig"} : disk_change(FileA, st)
    \/ \E text \in RaceInputs, walk \in TraversalOrders :
           Len(workers) < 1 /\ on_send_to_ai(text, walk)
    \/ BuildBegin(1)
    \/ BuildEnd(1)
    \/ SendRequest(1)
    \/ \E o \in RaceOutcomes : Respond(1, o)
    \/ IdleDispatch

FrameSpec == Init /\ [][FrameNext]_vars

\* The tabs of the window: files are opened from the tree, the untitled tab
\* is saved under a name, tabs are made, closed and their buttons clicked.
TabNext ==
    \/ \E folder \in {TopDir} : on_folder_selected(folder)
    \/ on_new_file
    \/ \E p \in {FileA, FileBB} : on_file_activated(p)
    \/ \E p \in {FileBB} : Len(chat_buffer) < MaxChat /\ on_save_file(p)
    \/ edit_buffer
    \/ on_close_tab
    \/ \E view \in WidgetIds : on_tab_button_clicked(view)

TabSpec == Init /\ [][TabNext]_vars

\* The file tree: folders are opened, rows of files and of folders are
\* clicked, the context is cleared, while files come and go on disk.
TreePaths == {FileA, FileBA, FileBB, DirB}

TreeNext ==
    \/ \E folder \in {TopDir, DirB} : on_folder_selected(folder)
    \/ \E p \in TreePaths : on_context_toggled(p)
    \/ on_clear_context
    \/ \E p \in {FileA, FileBA}, st \in {"absent", "orig"} : disk_change(p, st)

TreeSpec == Init /\ [][TreeNext]_vars

\* The settings of the desktop window alone: the dialog is opened, its
\* widgets are edited, it is cancelled or saved, the application is started
\* again, and the tree and the tabs are used in between.
Temperatures == {7, 12}

DialogNext ==
    \/ on_settings
    \/ on_settings_cancel
    \/ \E url \in Urls, prompt \in Prompts, temp \in Temperatures : on_save(url, prompt, temp)
    \/ AppStart
    \/ \E folder \in {TopDir} : on_folder_selected(folder)
    \/ \E p \in {FileA} : on_context_toggled(p)
    \/ on_new_file
    \/ on_close_tab

DialogSpec == ConfigInit /\ [][DialogNext]_vars

\* ------------------------------------------------------------- claims
\* Position of the first occurrence of x in seq (0 if none).
FirstIndex(seq, x) ==
    IF \E k \in 1..Len(seq) : seq[k] = x
    THEN Min({k \in 1..Len(seq) : seq[k] = x}) ELSE 0

\* The workers that have built their context and message list.
Built == {i \in 1..Len(workers) : workers[i].messages # <<>>}

\* A message list of the shape the orchestrator promises, for persona
\* prompt `prompt`, assembled context `parts` and user text `text`.
IsPromptShape(m, prompt, parts, text) ==
    /\ Len(m) \in {2, 3}
    /\ m[1].role = "system" /\ m[1].kind = "persona" /\ m[1].content = <<prompt>>
    /\ m[Len(m)].role = "user" /\ m[Len(m)].kind = "user" /\ m[Len(m)].content = text
    /\ Len(m) = 3 <=> parts # <<>>
    /\ Len(m) = 3 => m[2].role = "system" /\ m[2].kind = "files" /\ m[2].content = parts
    /\ \A k \in 1..Len(m) : m[k].role # "assistant"
    /\ Cardinality({k \in 1..Len(m) : m[k].role = "user"}) = 1

\* C1: every message list built for a send, by the desktop worker or by the
\* web backend, is the persona system message, then a "Files in context"
\* system message exactly when the assembled context is not empty, then the
\* one user message with this send's text: 2 or 3 messages, no assistant
\* message and nothing of an earlier send, whatever was sent and answered
\* before.
C1_MessageListShape ==
    /\ \A i \in Built :
           IsPromptShape(workers[i].messages, config.system_prompt,
                         workers[i].context_parts, workers[i].user_message)
    /\ \A k \in 1..Len(requests) :
           requests[k].messages = workers[requests[k].req].messages
    /\ web # NoExchange =>
           /\ IsPromptShape(web.messages, load_config(store).system_prompt,
                             WebParts(disk, web.context_files), web.message)
           /\ Len(web.posts) = 1
           /\ web.posts[1].messages = web.messages

\* C1's case: a first send was answered, its list had 2 messages, and the
\* second send's list has 3.
C1_Witness ==
    /\ Len(workers) = 2
    /\ Len(workers[1].messages) = 2
    /\ Len(workers[2].messages) = 3
    /\ \E k \in 1..Len(chat_buffer) : chat_buffer[k].req = 1 /\ chat_buffer[k].sender = "AI"

\* The paths of the parts, in order.
PartPaths(parts) == [k \in 1..Len(parts) |-> parts[k].path]

\* How many parts of the context are for path p.
BlocksFor(parts, p) == Cardinality({k \in 1..Len(parts) : parts[k].path = p})

\* C2: no path is emitted in more than one block of one assembled context.
C2_NoPathEmittedTwice ==
    \A i \in Built :
        \A j, k \in 1..Len(workers[i].context_parts) :
            j # k => workers[i].context_parts[j].path # workers[i].context_parts[k].path

\* The mentions of worker w that are ticked in the tree or are the open file.
CoveredMentions(w) ==
    {p \in SeqToSet(w.mentioned_files) :
        p \in file_contexts \/ (w.has_tab /\ p = w.tab_path)}

StepRank(step) == CASE step = "current" -> 1 [] step = "context" -> 2 [] OTHER -> 3

\* The files that contribute to the context of worker w and can be read.
Contributing(w) ==
    (IF w.has_tab /\ w.tab_path # NoPath THEN {w.tab_path} ELSE {})
        \cup {p \in file_contexts : CanRead(disk, p)}
        \cup {p \in SeqToSet(w.mentioned_files) : CanRead(disk, p)}

\* C4: the assembled context holds one block per readable contributing
\* file and none for a missing or unreadable path of the context set, the
\* current file's block first, then the context set's, then the mentions'.
C4_OneBlockPerFileInGroupOrder ==
    \A i \in Built :
        LET parts == workers[i].context_parts
        IN  /\ SeqToSet(PartPaths(parts)) = Contributing(workers[i])
            /\ Len(parts) = Cardinality(Contributing(workers[i]))
            /\ \A j, k \in 1..Len(parts) :
                   j < k => StepRank(parts[j].step) <= StepRank(parts[k].step)

\* C5: parse_mentions returns one path per distinct mention token: a token
\* that occurs several times in the message gives at most one entry, and
\* the entries are in the order of the tokens' first occurrence.
C5_OnePathPerDistinctToken ==
    \A i \in 1..Len(workers) :
        LET m == workers[i].mentioned_files
            tokens == FindAll(workers[i].user_message)
        IN  /\ \A j, k \in 1..Len(m) : j # k => Basename(m[j]) # Basename(m[k])
            /\ \A j, k \in 1..Len(m) :
                   j < k => FirstIndex(tokens, Basename(m[j])) < FirstIndex(tokens, Basename(m[k]))

\* C6: parse_mentions never returns a path whose file name starts with a
\* dot or that lies under a directory whose name starts with a dot.
C6_MentionsNeverHidden ==
    \A i \in 1..Len(workers) :
        \A k \in 1..Len(workers[i].mentioned_files) :
            ~HasHiddenPart(workers[i].mentioned_files[k])

\* The text of a part, of a context and of a message list as the server
\* receives them: where a part came from is not in the text.
PartText(part) == <<part.header, part.name, part.content>>
ContextText(parts) == [k \in 1..Len(parts) |-> PartText(parts[k])]
MessagesText(m) ==
    [k \in 1..Len(m) |->
        [role |-> m[k].role,
         content |-> IF m[k].kind = "files" THEN ContextText(m[k].content)
                     ELSE m[k].content]]

\* C7: what a worker sends is what the window's state at dispatch gives:
\* the context and the persona prompt of its message list, and the URL,
\* temperature and max_tokens of its POST, whatever the user did since.
C7_WorkerUsesDispatchInputs ==
    /\ \A i \in Built :
           MessagesText(workers[i].messages) = MessagesText(workers[i].snap_messages)
    /\ \A k \in 1..Len(requests) :
           LET c == workers[requests[k].req].snap.config
           IN  /\ requests[k].url = c.llama_cpp_url
               /\ requests[k].temperature = c.temperature
               /\ requests[k].max_tokens = c.max_tokens

\* The chat entries that answer send i, and the queued callbacks that will.
Responses(i) ==
    {k \in 1..Len(chat_buffer) :
        chat_buffer[k].req = i /\ chat_buffer[k].sender \in {"AI", "Error"}}
Queued(i) ==
    {k \in 1..Len(idle) : idle[k].fn = "add_chat_message" /\ idle[k].req = i}

\* C8: the POST is never made on the UI thread, the chat buffer is changed
\* on the UI thread only, and a worker that has ended, on whatever path,
\* has handed its result to the main loop's queue.
C8_PostOffUiChatOnUi ==
    /\ \A k \in 1..Len(requests) : requests[k].thread = Worker(requests[k].req)
    /\ \A k \in 1..Len(chat_buffer) : chat_buffer[k].thread = UI
    /\ \A i \in 1..Len(workers) :
           workers[i].pc = "done" => Cardinality(Queued(i)) + Cardinality(Responses(i)) = 1

\* C8's case: the answers of a well-formed 200, of another status and of a
\* refused connection are in the chat.
C8_Witness ==
    /\ \E k \in 1..Len(chat_buffer) : chat_buffer[k].sender = "AI"
    /\ \E k \in 1..Len(chat_buffer) :
           chat_buffer[k].sender = "Error" /\ chat_buffer[k].message[1] = "API error: "
    /\ Len(requests) = 2

\* The script output windows of run j, and the queued callbacks for it.
ScriptShown(j) == {k \in 1..Len(script_dialogs) : script_dialogs[k].script = j}
ScriptQueued(j) ==
    {k \in 1..Len(idle) : idle[k].fn = "_show_script_output" /\ idle[k].req = j}

\* C9: every send gets exactly one answer in the chat, never two, and gets
\* it eventually, whatever the server does; every script run gets exactly
\* one output window, eventually.
C9_ExactlyOneTerminalResult ==
    /\ [](\A i \in 1..Len(workers) :
              Cardinality(Queued(i)) + Cardinality(Responses(i))
                  = IF workers[i].pc = "done" THEN 1 ELSE 0)
    /\ [](\A j \in 1..Len(scripts) :
              Cardinality(ScriptQueued(j)) + Cardinality(ScriptShown(j))
                  = IF scripts[j].pc = "done" THEN 1 ELSE 0)
    /\ \A i \in 1..MaxSends :
           (Len(workers) >= i) ~> (Cardinality(Responses(i)) = 1)
    /\ \A j \in 1..MaxScripts :
           (Len(scripts) >= j) ~> (Cardinality(ScriptShown(j)) = 1)

\* C9's case: a send that met a malformed 200 and a script run that timed
\* out both have their one result.
C9_Witness ==
    /\ \E k \in 1..Len(chat_buffer) :
           chat_buffer[k].sender = "Error" /\ chat_buffer[k].message = <<"Error: ", "malformed">>
    /\ \E k \in 1..Len(script_dialogs) :
           script_dialogs[k].report[1] = "Script timed out after 300 seconds."

\* The sends of the answers in the chat, in chat order.
RECURSIVE AnswerOrder(_)
AnswerOrder(buf) ==
    IF buf = <<>> THEN <<>>
    ELSE (IF Head(buf).sender \in {"AI", "Error"} /\ Head(buf).req > 0
          THEN <<Head(buf).req>> ELSE <<>>) \o AnswerOrder(Tail(buf))

\* The sends of the queued chat callbacks, in queue order.
RECURSIVE QueueOrder(_)
QueueOrder(queue) ==
    IF queue = <<>> THEN <<>>
    ELSE (IF Head(queue).fn = "add_chat_message" THEN <<Head(queue).req>> ELSE <<>>)
             \o QueueOrder(Tail(queue))

\* C10: the answers are appended to the chat in the order in which the
\* workers posted them to the main loop, not in the order of the sends.
C10_AnswersInPostOrder == AnswerOrder(chat_buffer) \o QueueOrder(idle) = posted

\* C10's case: both sends in flight together, and the second send's answer
\* is in the chat before the first's.
C10_Witness ==
    /\ Len(requests) = 2
    /\ AnswerOrder(chat_buffer) = <<2, 1>>

\* The chat inputs that are not empty once stripped.
NonEmptyInputs == {t \in ChatInputs : Strip(t) # <<>>}

\* C11: whatever the number of sends in flight and wherever their workers
\* are, a non-empty send is accepted at once: its "You" entry is appended
\* and its own worker is started, no earlier worker is waited for or
\* changed, and the number of sends in flight has no bound.
C11_SendNeverBlocked ==
    \A text \in NonEmptyInputs :
        \E walk \in TraversalOrders :
            ENABLED ( /\ on_send_to_ai(text, walk)
                      /\ Len(workers') = Len(workers) + 1
                      /\ SubSeq(workers', 1, Len(workers)) = workers
                      /\ workers'[Len(workers')].pc = "start"
                      /\ chat_buffer' = Append(chat_buffer,
                             [sender |-> "You", message |-> Strip(text),
                              req |-> Len(workers) + 1, thread |-> UI]) )

\* C11's case: two sends are in flight together, the second accepted while
\* the POST of the first had not returned, and a further send is accepted.
C11_Witness ==
    /\ Len(workers) = MaxSends
    /\ \A i \in 1..Len(workers) : workers[i].pc = "inflight"
    /\ C11_SendNeverBlocked

\* The results of send i: its chat entries other than the "You" entry, and
\* the callbacks queued for it.
ResultsOf(i) ==
    [k \in Responses(i) |-> [sender |-> chat_buffer[k].sender, message |-> chat_buffer[k].message]]
ResultsQueuedOf(i) ==
    [k \in Queued(i) |-> [sender |-> idle[k].sender, message |-> idle[k].message]]

\* C12: a status s other than 200 gives the send exactly one result, an
\* error entry "API error: s" that holds the code s, and no assistant
\* reply; the web backend answers with the error "API error: s".
C12_StatusGivesOneApiError ==
    /\ \A i \in 1..Len(workers) :
           workers[i].response.kind = "status" =>
               LET entry == [sender |-> "Error",
                             message |-> <<"API error: ", ToString(workers[i].response.status)>>]
               IN  /\ Cardinality(Responses(i)) + Cardinality(Queued(i)) = 1
                   /\ \A k \in Responses(i) : ResultsOf(i)[k] = entry
                   /\ \A k \in Queued(i) : ResultsQueuedOf(i)[k] = entry
    /\ web.response.kind = "status" =>
           /\ web.answer.key = "error"
           /\ web.answer.status # 200
           /\ web.answer.text = <<"API error: ", ToString(web.response.status)>>

\* C12's case: one send met a 500 and another a 204, and both entries are
\* in the chat.
C12_Witness ==
    /\ Len(workers) = 2
    /\ workers[1].response = [kind |-> "status", status |-> 500]
    /\ workers[2].response = [kind |-> "status", status |-> 204]
    /\ Cardinality(Responses(1)) = 1 /\ Cardinality(Responses(2)) = 1

\* The port of a server URL, and whether a text names a URL: it holds the
\* URL, or at least its port.
UrlPort(url) == IF url = DefaultUrl THEN "8080" ELSE "9000"
NamesUrl(message, url) ==
    \E k \in 1..Len(message) : message[k] = url \/ message[k] = UrlPort(url)

\* C13: when the connection is refused, the error entry of the send names
\* the URL the POST was made to, whatever llama_cpp_url is configured; so
\* does the error the web backend answers with.
C13_RefusedNamesConfiguredUrl ==
    /\ \A i \in 1..Len(workers) :
           workers[i].response.kind = "refused" =>
               \A r \in 1..Len(requests) :
                   requests[r].req = i =>
                       /\ \A k \in Responses(i) :
                              NamesUrl(chat_buffer[k].message, requests[r].url)
                       /\ \A k \in Queued(i) : NamesUrl(idle[k].message, requests[r].url)
    /\ web.response.kind = "refused" => NamesUrl(web.answer.text, web.posts[1].url)

\* The POSTs made for send i.
PostsOf(i) == {r \in 1..Len(requests) : requests[r].req = i}

\* C14: a send makes at most one POST, and exactly one once the server
\* has answered or the POST has failed, whatever the outcome; the web
\* backend makes exactly one POST per chat request.
C14_AtMostOnePost ==
    /\ \A i \in 1..Len(workers) :
           /\ Cardinality(PostsOf(i)) <= 1
           /\ workers[i].response # NoResponse => Cardinality(PostsOf(i)) = 1
    /\ Len(requests) <= Len(workers)
    /\ web # NoExchange => Len(web.posts) = 1

\* C14's case: a refused connection and a read timeout, each reported,
\* and one POST made for each.
C14_Witness ==
    /\ Len(workers) = 2
    /\ workers[1].response.kind = "refused"
    /\ workers[2].response.kind = "read_timeout"
    /\ Cardinality(Responses(1)) = 1 /\ Cardinality(Responses(2)) = 1
    /\ Len(requests) = 2

\* The class of an outcome of the POST: a refused connection, a status
\* that is not 2xx, a timeout, any other exception (a malformed body raises
\* one); a 2xx status is no failure of the network.
FailureClass(o) ==
    CASE o.kind = "refused" -> "refused"
      [] o.kind = "status" -> IF 200 <= o.status /\ o.status < 300 THEN "2xx" ELSE "status"
      [] o.kind \in {"connect_timeout", "read_timeout"} -> "timeout"
      [] o.kind \in {"other", "malformed"} -> "generic"
      [] OTHER -> "ok"

\* The form of a chat entry: its sender and the fixed start of its text.
EntryForm(e) == <<e.sender, e.message[1]>>

\* C15: two sends whose POSTs end in different classes get chat entries of
\* different forms; a 204 does not get the entry of a non-2xx status, nor a
\* timeout while connecting the entry of a refused connection.
C15_ClassesGetDistinctEntries ==
    \A i, j \in 1..Len(workers) :
        \A k \in Responses(i), l \in Responses(j) :
            FailureClass(workers[i].response) # FailureClass(workers[j].response)
                => EntryForm(chat_buffer[k]) # EntryForm(chat_buffer[l])

\* cfg is the map `defaults` overlaid with the object c.
IsOverlaid(cfg, defaults, c) ==
    /\ DOMAIN cfg = DOMAIN defaults \cup DOMAIN c
    /\ \A k \in DOMAIN c : cfg[k] = c[k]
    /\ \A k \in DOMAIN defaults \ DOMAIN c : cfg[k] = defaults[k]

\* C16: a start on a missing store gives the window exactly the default
\* keys with the default values, and so does GET /api/config with the web
\* defaults; once save(c) has written an object c, load() does not raise
\* and returns the defaults overlaid with c, in the window started next
\* and in the web backend.
C16_LoadAfterSave ==
    /\ [][AppStart /\ store = <<>> => config' = DEFAULT_CONFIG]_vars
    /\ [][get_config /\ store = <<>> =>
              web'.answer = [status |-> 200, key |-> "config", text |-> WEB_DEFAULT_CONFIG]]_vars
    /\ [][\A c \in ConfigObjects :
              Config_save(c) =>
                  /\ ~LoadRaises(store')
                  /\ IsOverlaid(ConfigLoad(store'), DEFAULT_CONFIG, c)
                  /\ IsOverlaid(load_config(store'), WEB_DEFAULT_CONFIG, c)]_vars
    /\ [][AppStart /\ ~LoadRaises(store) /\ store # <<>> =>
              IsOverlaid(config', DEFAULT_CONFIG, store[1].value)]_vars
    /\ [][get_config /\ ~LoadRaises(store) /\ store # <<>> =>
              IsOverlaid(web'.answer.text, WEB_DEFAULT_CONFIG, store[1].value)]_vars

\* C16's case: {temperature: 1.2} was saved and the window started on it
\* has temperature 1.2 and every other key at its default.
C16_Witness ==
    /\ store = <<JsonDump([temperature |-> 12])>>
    /\ config = [DEFAULT_CONFIG EXCEPT !.temperature = 12]
    /\ web.answer.key = "config"
    /\ web.answer.text = [WEB_DEFAULT_CONFIG EXCEPT !.temperature = 12]

\* The store holds an object with the key that is in no default map.
HasExtra(st) == st # <<>> /\ st[1].json = "object" /\ ExtraKey \in DOMAIN st[1].value

\* The key is in the store after the step, with the value it had.
ExtraKept == HasExtra(store') /\ store'[1].value[ExtraKey] = store[1].value[ExtraKey]

\* A Save of the settings dialog, and a POST /api/config that does not set
\* the key.
DialogSave == \E url \in Urls : on_save(url, DefaultPrompt, 7)
ApiSave == \E body \in ConfigObjects : ExtraKey \notin DOMAIN body /\ set_config(body)

\* load() returns the key of the store that is in no default map.
ExtraLoaded ==
    HasExtra(store) =>
        /\ ExtraKey \in DOMAIN ConfigLoad(store)
        /\ ConfigLoad(store)[ExtraKey] = store[1].value[ExtraKey]
        /\ ExtraKey \in DOMAIN load_config(store)
        /\ load_config(store)[ExtraKey] = store[1].value[ExtraKey]

\* C17 as stated: a key of the persisted config that is in no default map
\* is returned by load(), and every later Save of the settings dialog and
\* every later POST /api/config that does not set it leaves it in the
\* store with its value.
C17_ExtraKeyNeverLost ==
    /\ []ExtraLoaded
    /\ [][HasExtra(store) /\ (DialogSave \/ ApiSave) => ExtraKept]_vars

\* C17 as amended: load() returns the key; a POST /api/config that does
\* not set it keeps it; a Save of the settings dialog keeps it when the
\* window's config, loaded once at start-up, holds the key with the value
\* of the store.
C17_ExtraKeyKeptByResave ==
    /\ []ExtraLoaded
    /\ [][HasExtra(store) /\ ApiSave => ExtraKept]_vars
    /\ [][/\ HasExtra(store)
          /\ DialogSave
          /\ ExtraKey \in DOMAIN config
          /\ config[ExtraKey] = store[1].value[ExtraKey]
          => ExtraKept]_vars

\* C17's case: the window started on a store holding the key, and its
\* settings dialog has saved another URL: the store holds the window's
\* keys and the key.
C17_Witness ==
    /\ store = <<JsonDump(Overlay([DEFAULT_CONFIG EXCEPT !.llama_cpp_url = OtherUrl],
                                  [plugin |-> "on"]))>>
    /\ config = store[1].value
    /\ dialog = <<>>

\* C18: whatever the store holds (no file, a JSON object, something that
\* is not a JSON object), load() returns a config: the window starts with
\* one, and the config API never answers with the error of a handler
\* that raised.
C18_LoadNeverFatal ==
    /\ config # Crashed
    /\ web.answer # InternalServerError

\* C19: the context set changes in a click on a row's check box and in
\* Clear Context only: a send, the worker's context assembly, a new root
\* folder, opening, saving or closing a tab, a settings save and a change
\* of the disk leave it as it is; a ticked file that is deleted stays in
\* the set, and the assembly alone skips it.
C19_ContextSetFrame ==
    /\ [][file_contexts' # file_contexts =>
              (\E p \in {FileA} : on_context_toggled(p)) \/ on_clear_context]_vars
    /\ [][(\E st \in {"absent", "orig"} : disk_change(FileA, st)) =>
              file_contexts' = file_contexts]_vars
    /\ [][BuildEnd(1) /\ workers'[1].pc = "built" =>
              /\ file_contexts' = file_contexts
              /\ \A p \in file_contexts :
                     ~IsFile(disk, p) =>
                         \A k \in 1..Len(workers'[1].context_parts) :
                             ~(workers'[1].context_parts[k].path = p
                                  /\ workers'[1].context_parts[k].step = "context")]_vars

\* C19's case: the file "a" was ticked when the worker began to assemble
\* the context and is deleted; it is still in the set and the context has
\* no block for it.
C19_Witness ==
    /\ Len(workers) = 1
    /\ workers[1].pc = "built"
    /\ workers[1].it_used = 1
    /\ file_contexts = {FileA}
    /\ disk[FileA] = "absent"
    /\ \A k \in 1..Len(workers[1].context_parts) : workers[1].context_parts[k].path # FileA

\* The report of an exception that left build_context.
AssemblyError == <<"Error: ", "Set changed size during iteration">>

\* C20: the context assembly never raises to send_to_llama: no send gets
\* the report of an exception of the assembly, and every send whose worker
\* has ended has made its POST.
C20_AssemblyNeverRaises ==
    \A i \in 1..Len(workers) :
        /\ \A k \in Responses(i) : chat_buffer[k].message # AssemblyError
        /\ \A k \in Queued(i) : idle[k].message # AssemblyError
        /\ workers[i].pc = "done" => Cardinality(PostsOf(i)) = 1

\* C21: when the current tab has a file, the first block of the context
\* is the current-file block, under the file's base name, and its content
\* is the editor buffer as it is, modified or not; the file on disk is not
\* read for it, so the block is there whatever the disk holds.
C21_CurrentFileIsLiveBuffer ==
    \A i \in Built :
        LET w == workers[i]
            parts == w.context_parts
        IN  (w.has_tab /\ w.tab_path # NoPath) =>
                /\ parts # <<>>
                /\ parts[1].step = "current"
                /\ parts[1].header = "Current File"
                /\ parts[1].path = w.tab_path
                /\ parts[1].name = Basename(w.tab_path)
                /\ parts[1].content = CurrentTab(tabs, current_tab_index).text
                /\ \A k \in 2..Len(parts) : parts[k].step # "current"

\* C21's case: the open file has unsaved changes, the disk holds another
\* text or cannot be read, and the block holds the buffer.
C21_Witness ==
    \E i \in Built :
        /\ workers[i].tab_path = FileA
        /\ CurrentTab(tabs, current_tab_index).modified
        /\ disk[FileA] = "bad"
        /\ workers[i].context_parts[1].content = "edit"

\* A regular file of the name t lies below root.
HasFileNamed(dsk, root, t) ==
    \E f \in Files : IsFile(dsk, f) /\ IsBelow(root, f) /\ Basename(f) = t

\* C22: a send with no folder open resolves no mention, whatever the
\* text. With a folder open, the resolved paths are regular files below
\* it, one for each token that names one and in the order of the tokens:
\* a token that names nothing, or directories only, gives no path and does
\* not stop the tokens after it. No send puts an error entry in the chat.
C22_MentionsFailSoftly ==
    /\ [][Len(workers') > Len(workers) =>
              LET w == workers'[Len(workers')]
                  m == w.mentioned_files
              IN  IF root_folder = NoPath THEN m = <<>>
                  ELSE /\ \A k \in 1..Len(m) : IsFile(disk, m[k]) /\ IsBelow(root_folder, m[k])
                       /\ [k \in 1..Len(m) |-> Basename(m[k])]
                              = SelectSeq(FindAll(w.user_message),
                                          LAMBDA t : HasFileNamed(disk, root_folder, t))]_vars
    /\ [](\A k \in 1..Len(chat_buffer) : chat_buffer[k].sender = "You")

\* C22's case: "@b@a" with the top folder open, where "b" names a
\* directory only: the one path is that of "a".
C22_Witness ==
    /\ root_folder = TopDir
    /\ disk[FileBB] = "absent"
    /\ Len(workers) = 1
    /\ workers[1].user_message = <<"@", "b", "@", "a">>
    /\ Len(workers[1].mentioned_files) = 1
    /\ Basename(workers[1].mentioned_files[1]) = NameA

\* The editor of the i-th tab (0-based).
ViewOf(i) == source_views[i + 1]

\* C23: after any new-tab, open-file and close-tab actions the page named
\* "tab_i" is the editor of tabs[i], no two pages share a name, and the
\* editor the stack shows is the one of tabs[current_tab_index].
C23_StackShowsCurrentTab ==
    /\ \A i \in 0..(Len(tabs) - 1) :
          get_child_by_name(editor_stack, tab_name(i)) = ViewOf(i)
    /\ \A j, k \in 1..Len(editor_stack) :
          editor_stack[j].name = editor_stack[k].name => j = k
    /\ HasCurrentTab(tabs, current_tab_index) => visible_child = ViewOf(current_tab_index)

\* C24: a click on the button made for the k-th tab makes that tab
\* current, whatever number of tabs is open: no click leaves another index.
C24_ClickMakesTabCurrent ==
    \A k \in 1..Len(tab_box) :
        ~ENABLED (on_tab_button_clicked(tab_box[k]) /\ current_tab_index' # k - 1)

\* C25: the tab list is never empty and current_tab_index is an index of
\* it, and closing the only tab left leaves exactly one fresh untitled tab,
\* which is current.
C25_AlwaysACurrentTab ==
    /\ tabs # <<>>
    /\ 0 <= current_tab_index /\ current_tab_index < Len(tabs)
    /\ Len(tabs) = 1 =>
          ~ENABLED (on_close_tab /\ ~(/\ tabs' = <<EditorTab(NoPath, "empty")>>
                                      /\ current_tab_index' = 0))

\* C26: under toggles, Clear Context and folder changes a file's row is
\* ticked exactly when its path is in file_contexts, a folder's row is never
\* ticked, a click on a folder's row changes nothing, and the label shows
\* the size of file_contexts.
C26_TreeAgreesWithContext ==
    /\ [](\A p \in DOMAIN file_store :
            IF p \in Files THEN file_store[p] <=> p \in file_contexts
            ELSE ~file_store[p])
    /\ [](context_label = ContextLabel(Cardinality(file_contexts)))
    /\ [][\A d \in Dirs : on_context_toggled(d) => UNCHANGED treeVars]_vars

C26_Witness ==
    /\ root_folder = DirB
    /\ file_contexts = {FileA, FileBA}
    /\ file_store[FileBA]
    /\ ~file_store[DirB]
    /\ context_label = ContextLabel(2)

\* The positions of the chat entries of send i put there by `senders`.
EntriesOf(i, senders) ==
    {k \in 1..Len(chat_buffer) : chat_buffer[k].req = i /\ chat_buffer[k].sender \in senders}

\* C27: the chat only grows at its end; every send whose worker exists has
\* its "You" entry, with the stripped text, in the chat, ahead of that
\* send's own AI or Error entry; an entry that is blank once stripped adds
\* nothing to the chat and starts no worker.
C27_YouEntryFirst ==
    /\ [][/\ Len(chat_buffer') >= Len(chat_buffer)
          /\ SubSeq(chat_buffer', 1, Len(chat_buffer)) = chat_buffer]_vars
    /\ [](\A i \in 1..Len(workers) :
            /\ \E k \in EntriesOf(i, {"You"}) :
                  /\ chat_buffer[k].message = workers[i].user_message
                  /\ \A j \in EntriesOf(i, {"AI", "Error"}) : k < j
            /\ Cardinality(EntriesOf(i, {"You"})) = 1)
    /\ [][\A text \in ChatInputs, walk \in TraversalOrders :
            (Strip(text) = <<>> /\ on_send_to_ai(text, walk))
                => UNCHANGED <<chat_buffer, workers>>]_vars

\* Two sends overlap and the second is answered first.
C27_Witness ==
    /\ Len(workers) = 2
    /\ Len(chat_buffer) = 4
    /\ EntriesOf(1, {"You"}) = {1}
    /\ EntriesOf(2, {"You"}) = {2}
    /\ EntriesOf(2, {"AI", "Error"}) = {3}
    /\ EntriesOf(1, {"AI", "Error"}) = {4}

\* C28: in the desktop window the in-memory config is what Config.load()
\* gives from the store, in every state; Cancel changes neither the config
\* nor the store, and Save changes the two in one step, to the edited copy.
C28_ConfigIsLoadOfStore ==
    /\ [](config # Crashed => ~LoadRaises(store) /\ config = ConfigLoad(store))
    /\ [][on_settings_cancel => UNCHANGED <<config, store>>]_vars
    /\ [][\A url \in Urls, prompt \in Prompts, temp \in Temperatures :
            on_save(url, prompt, temp) =>
                /\ config' = [dialog[1] EXCEPT !.llama_cpp_url = url,
                                               !.system_prompt = prompt,
                                               !.temperature = temp]
                /\ store' = <<JsonDump(config')>>]_vars

\* A store with a key of its own has been loaded, edited in the dialog and
\* saved, and the dialog has been opened again and cancelled.
C28_Witness ==
    /\ dialog = <<>>
    /\ config # Crashed
    /\ config.llama_cpp_url = OtherUrl
    /\ config.temperature = 12
    /\ ExtraKey \in DOMAIN config
    /\ store = <<JsonDump(config)>>

====
